---- MODULE Spec2Model ----
(***************************************************************************)
(* The arithmetic-circuit graph of src/src/cxx.rs: Operation::eval, the     *)
(* evaluator Graph::evaluate and the optimizer passes tree_shake,           *)
(* propagate, value_numbering, constants and their driver optimize.         *)
(*                                                                         *)
(* U256 is modelled as an unsigned integer of BITS bits (BITS stands for    *)
(* the 256 of the source), its least significant limb as the low LimbBits   *)
(* bits (the 64 of the source).  The field modulus is a field of the        *)
(* Graph, so it is a variable of the model.  Node indices are 0-based as    *)
(* in the source; the element with index i of a sequence s is At(s, i).     *)
(* The limb conversions of src/src/util.rs and synthesize of               *)
(* src/src/lib.rs have specifications of their own further down.           *)
(***************************************************************************)
EXTENDS Integers, Sequences, FiniteSets, TLC

VARIABLES nodes, inputs, modulus, outputs, debug_assertions, panicked, last, ret, call, callers,
          run, conv, synth

vars == <<nodes, inputs, modulus, outputs, debug_assertions, panicked, last, ret, call, callers,
          run, conv, synth>>

\* Width of the unsigned integer type (U256 in the source).
BITS == 4

\* Width of one limb of the unsigned integer type (u64 in the source).
LimbBits == 3

\* Largest number of nodes of a loaded graph.
MaxNodes == 3

RECURSIVE Pow2(_)
Pow2(n) == IF n = 0 THEN 1 ELSE 2 * Pow2(n - 1)

UintMax == Pow2(BITS) - 1

Uint == 0..UintMax

At(s, i) == s[i + 1]

(***************************************************************************)
(* enum Operation                                                          *)
(***************************************************************************)
Operation == {"Mul", "MMul", "Add", "Sub", "Eq", "Neq", "Lt", "Gt", "Leq", "Geq", "Lor", "Shl", "Shr", "Band"}

\* The value that stands for a panic (no value is returned).
PANIC == -1

\* U256::from(bool)
FromBool(c) == IF c THEN 1 ELSE 0

\* ruint reduce_mod: self % modulus, zero when the modulus is zero.
reduce_mod(a, m) == IF m = 0 THEN 0 ELSE a % m

\* add_mod without the final subtraction of the modulus.
add_mod_unreduced(a, b, m) ==
    IF m = 0 THEN 0 ELSE (reduce_mod(a, m) + reduce_mod(b, m)) % Pow2(BITS)

\* ruint add_mod: both operands are reduced, added with the carry kept, and
\* the modulus is subtracted once when the sum overflowed or reached it.
add_mod(a, b, m) ==
    LET lhs == reduce_mod(a, m)
        rhs == reduce_mod(b, m)
        wide == lhs + rhs
        overflow == wide > UintMax
        result == wide % Pow2(BITS)
    IN  IF m = 0 THEN 0
        ELSE IF overflow \/ result >= m THEN (result + Pow2(BITS) - m) % Pow2(BITS)
        ELSE result

\* The product wrapped at the width of the type before it is reduced.
mul_mod_wrapping(a, b, m) == IF m = 0 THEN 0 ELSE ((a * b) % Pow2(BITS)) % m

\* ruint mul_mod: the double-width product reduced by the modulus.
mul_mod(a, b, m) == IF m = 0 THEN 0 ELSE (a * b) % m

\* wrapping_sub with its operands exchanged.
wrapping_sub_exchanged(a, b) == (b - a + Pow2(BITS)) % Pow2(BITS)

\* The - operator of U256 wraps.
wrapping_sub(a, b) == (a - b + Pow2(BITS)) % Pow2(BITS)

\* U256::shl(usize) is wrapping_shl: zero when the amount reaches the width.
shl(a, s) == IF s >= BITS THEN 0 ELSE (a * Pow2(s)) % Pow2(BITS)

\* U256::shr(usize) is wrapping_shr.
shr(a, s) == IF s >= BITS THEN 0 ELSE a \div Pow2(s)

RECURSIVE bitand(_, _)
bitand(a, b) ==
    IF a = 0 \/ b = 0 THEN 0
    ELSE 2 * bitand(a \div 2, b \div 2) + (IF a % 2 = 1 /\ b % 2 = 1 THEN 1 ELSE 0)

\* b.as_limbs()[0]
ls_limb(b) == b % Pow2(LimbBits)

\* debug_assert!(b.lt(&U256::from(256))) is compiled only with debug assertions.
compute_shl_uint(a, b, dbg) ==
    IF dbg /\ ~(b < BITS) THEN PANIC ELSE shl(a, ls_limb(b))

compute_shr_uint(a, b, dbg) ==
    IF dbg /\ ~(b < BITS) THEN PANIC ELSE shr(a, ls_limb(b))

\* compare with Leq decided as Lt.
compare_leq_strict(op, a, b) ==
    CASE op = "Eq" -> a = b
      [] op = "Neq" -> a # b
      [] op = "Lt" -> a < b
      [] op = "Gt" -> a > b
      [] op = "Leq" -> a < b
      [] op = "Geq" -> a >= b
      [] op = "Lor" -> a # 0 \/ b # 0

\* The comparison and boolean arms of Operation::eval, before U256::from.
compare(op, a, b) ==
    CASE op = "Eq" -> a = b
      [] op = "Neq" -> a # b
      [] op = "Lt" -> a < b
      [] op = "Gt" -> a > b
      [] op = "Leq" -> a <= b
      [] op = "Geq" -> a >= b
      [] op = "Lor" -> a # 0 \/ b # 0

Comparisons == {"Eq", "Neq", "Lt", "Gt", "Leq", "Geq", "Lor"}

\* The arm for every other operator falling through to the modular product.
unimplemented_as_mul(op, a, b, m) == mul_mod(a, b, m)

\* The arm of Operation::eval for every other operator: unimplemented!() panics.
unimplemented(op, a, b, m) == PANIC

\* Operation::eval(a, b, modulus); dbg tells whether the build has debug assertions.
eval(op, a, b, m, dbg) ==
    CASE op = "Add" -> add_mod(a, b, m)
      [] op = "Sub" -> add_mod(a, wrapping_sub(m, b), m)
      [] op = "Mul" -> mul_mod(a, b, m)
      [] op \in Comparisons -> FromBool(compare(op, a, b))
      [] op = "Shl" -> compute_shl_uint(a, b, dbg)
      [] op = "Shr" -> compute_shr_uint(a, b, dbg)
      [] op = "Band" -> bitand(a, b)
      [] OTHER -> unimplemented(op, a, b, m)

(***************************************************************************)
(* enum Node.  The three variants share one record shape: Input(i) keeps i *)
(* in field a, Constant(v) keeps v in field a.                             *)
(***************************************************************************)
Input(i) == [kind |-> "Input", op |-> "-", a |-> i, b |-> 0]

Constant(v) == [kind |-> "Constant", op |-> "-", a |-> v, b |-> 0]

Op(o, l, r) == [kind |-> "Op", op |-> o, a |-> l, b |-> r]

\* What a call that panicked leaves in place of a returned vector.
PanicV == <<PANIC>>

\* The latest call was not evaluate: it returned no vector.
NoRet == <<-2>>

Indices(s) == 0..(Len(s) - 1)

\* is_valid that looks at the left operand only.
is_valid_left_only(ns) ==
    \A i \in Indices(ns) : At(ns, i).kind = "Op" => ~(At(ns, i).a >= i)

\* Graph::is_valid: all references must be backwards.
is_valid(ns) ==
    \A i \in Indices(ns) :
        At(ns, i).kind = "Op" => ~(At(ns, i).a >= i \/ At(ns, i).b >= i)

\* node_value with the two operand values exchanged.
node_value_exchanged(node, ins, values, m, dbg) ==
    CASE node.kind = "Constant" -> node.a
      [] node.kind = "Input" -> IF node.a < Len(ins) THEN At(ins, node.a) ELSE PANIC
      [] OTHER ->
            IF node.a < Len(values) /\ node.b < Len(values)
            THEN eval(node.op, At(values, node.b), At(values, node.a), m, dbg)
            ELSE PANIC

\* node_value reading zero for an Input the table does not cover.
node_value_default(node, ins, values, m, dbg) ==
    CASE node.kind = "Constant" -> node.a
      [] node.kind = "Input" -> IF node.a < Len(ins) THEN At(ins, node.a) ELSE 0
      [] OTHER ->
            IF node.a < Len(values) /\ node.b < Len(values)
            THEN eval(node.op, At(values, node.a), At(values, node.b), m, dbg)
            ELSE PANIC

\* Graph::evaluate, the value of one node given the values of the nodes
\* before it.  PANIC stands for an index out of bounds or a panic of eval.
node_value(node, ins, values, m, dbg) ==
    CASE node.kind = "Constant" -> node.a
      [] node.kind = "Input" -> IF node.a < Len(ins) THEN At(ins, node.a) ELSE PANIC
      [] OTHER ->
            IF node.a < Len(values) /\ node.b < Len(values)
            THEN eval(node.op, At(values, node.a), At(values, node.b), m, dbg)
            ELSE PANIC

\* The loop of Graph::evaluate from the node with index Len(values) on.
RECURSIVE evaluate_loop(_, _, _, _, _)
evaluate_loop(ns, ins, m, dbg, values) ==
    LET value == node_value(At(ns, Len(values)), ins, values, m, dbg)
    IN  IF Len(values) = Len(ns) THEN values
        ELSE IF value = PANIC THEN PanicV
        ELSE evaluate_loop(ns, ins, m, dbg, Append(values, value))

\* Graph::evaluate
evaluate(ns, ins, m, dbg) ==
    IF ~is_valid(ns) THEN PanicV ELSE evaluate_loop(ns, ins, m, dbg, <<>>)

(***************************************************************************)
(* The passes.  Each returns [nodes, outputs, panic]: the node sequence    *)
(* and the caller's outputs as the call leaves them, and whether the call  *)
(* panicked.                                                               *)
(***************************************************************************)
Done(ns, outs) == [nodes |-> ns, outputs |-> outs, panic |-> FALSE]

Panicked(ns, outs) == [nodes |-> ns, outputs |-> outs, panic |-> TRUE]

Range(s) == {s[k] : k \in DOMAIN s}

\* mark_used that marks the left operand of a used Op only.
RECURSIVE mark_used_left(_, _, _)
mark_used_left(ns, used, i) ==
    LET node == At(ns, i)
    IN  IF i < 0 THEN used
        ELSE IF i \in used /\ node.kind = "Op"
        THEN IF node.a >= Len(ns) \/ node.b >= Len(ns) THEN {PANIC}
             ELSE mark_used_left(ns, used \cup {node.a}, i - 1)
        ELSE mark_used_left(ns, used, i - 1)

\* The marking loop walking the nodes from the first to the last.
RECURSIVE mark_forward_from(_, _, _)
mark_forward_from(ns, used, i) ==
    LET node == At(ns, i)
    IN  IF i >= Len(ns) THEN used
        ELSE IF i \in used /\ node.kind = "Op"
        THEN IF node.a >= Len(ns) \/ node.b >= Len(ns) THEN {PANIC}
             ELSE mark_forward_from(ns, used \cup {node.a, node.b}, i + 1)
        ELSE mark_forward_from(ns, used, i + 1)

\* mark_used walking forward, whatever node it is asked to start at.
mark_used_forward(ns, used, i) == mark_forward_from(ns, used, 0)

\* tree_shake, the backward marking loop, at the node with index i: a used
\* Op marks both its operands.  {PANIC} stands for an index out of bounds.
RECURSIVE mark_used(_, _, _)
mark_used(ns, used, i) ==
    LET node == At(ns, i)
    IN  IF i < 0 THEN used
        ELSE IF i \in used /\ node.kind = "Op"
        THEN IF node.a >= Len(ns) \/ node.b >= Len(ns) THEN {PANIC}
             ELSE mark_used(ns, used \cup {node.a, node.b}, i - 1)
        ELSE mark_used(ns, used, i - 1)

\* renumber[i] counting the used nodes up to and including i.
renumber_shake_inclusive(used, i) ==
    IF i \in used THEN Cardinality({j \in used : j <= i}) ELSE PANIC

\* renumber[i] left as i: no reference is moved.
renumber_shake_identity(used, i) == IF i \in used THEN i ELSE PANIC

\* tree_shake, renumber[i]: Some(number of used nodes before i) for a used
\* node, None (PANIC here) for the others.
renumber_shake(used, i) ==
    IF i \in used THEN Cardinality({j \in used : j < i}) ELSE PANIC

\* retain keeping the first nodes of the sequence, as many as are used.
kth_used_prefix(used, k) == k - 1

\* The index of the k-th used node (k from 1): what retain keeps at position k.
kth_used(used, k) == CHOOSE i \in used : Cardinality({j \in used : j < i}) = k - 1

\* Graph::tree_shake
tree_shake(ns, outs) ==
    LET n == Len(ns)
        used0 == Range(outs)
        used == mark_used(ns, used0, n - 1)
        kept == [k \in 1..Cardinality(used) |-> At(ns, kth_used(used, k))]
        unwrap_fails ==
            \/ \E k \in DOMAIN kept : kept[k].kind = "Op" /\ (kept[k].a \notin used \/ kept[k].b \notin used)
            \/ \E k \in DOMAIN outs : outs[k] \notin used
        shaken ==
            [k \in DOMAIN kept |->
                IF kept[k].kind = "Op"
                THEN Op(kept[k].op, renumber_shake(used, kept[k].a), renumber_shake(used, kept[k].b))
                ELSE kept[k]]
    IN  IF ~is_valid(ns) THEN Panicked(ns, outs)
        ELSE IF \E k \in DOMAIN outs : outs[k] >= n THEN Panicked(ns, outs)
        ELSE IF used = {PANIC} THEN Panicked(ns, outs)
        ELSE IF unwrap_fails THEN Panicked(kept, outs)
        ELSE Done(shaken, [k \in DOMAIN outs |-> renumber_shake(used, outs[k])])

\* same_operand with Leq decided as Lt.
same_operand_leq_strict(op) ==
    CASE op \in {"Eq", "Geq"} -> FromBool(TRUE)
      [] op \in {"Neq", "Lt", "Gt", "Leq"} -> FromBool(FALSE)
      [] OTHER -> PANIC

\* propagate, the match on the operator of an Op with the same node on both
\* sides: Some(true), Some(false), or None (PANIC here).
same_operand(op) ==
    CASE op \in {"Eq", "Leq", "Geq"} -> FromBool(TRUE)
      [] op \in {"Neq", "Lt", "Gt"} -> FromBool(FALSE)
      [] OTHER -> PANIC

\* propagate_loop with the two constants handed to eval in exchanged order.
RECURSIVE propagate_loop_exchanged(_, _, _, _)
propagate_loop_exchanged(ns, m, dbg, i) ==
    LET node == At(ns, i)
        na == At(ns, node.a)
        nb == At(ns, node.b)
        folded == eval(node.op, nb.a, na.a, m, dbg)
    IN  IF i >= Len(ns) THEN Done(ns, <<>>)
        ELSE IF node.kind # "Op" THEN propagate_loop_exchanged(ns, m, dbg, i + 1)
        ELSE IF node.a >= Len(ns) \/ node.b >= Len(ns) THEN Panicked(ns, <<>>)
        ELSE IF na.kind = "Constant" /\ nb.kind = "Constant"
        THEN IF folded = PANIC THEN Panicked(ns, <<>>)
             ELSE propagate_loop_exchanged([ns EXCEPT ![i + 1] = Constant(folded)], m, dbg, i + 1)
        ELSE IF node.a = node.b /\ same_operand(node.op) # PANIC
        THEN propagate_loop_exchanged([ns EXCEPT ![i + 1] = Constant(same_operand(node.op))], m, dbg, i + 1)
        ELSE propagate_loop_exchanged(ns, m, dbg, i + 1)

\* The loop of propagate walking the nodes from the last to the first.
RECURSIVE propagate_backward_from(_, _, _, _)
propagate_backward_from(ns, m, dbg, i) ==
    LET node == At(ns, i)
        na == At(ns, node.a)
        nb == At(ns, node.b)
        folded == eval(node.op, na.a, nb.a, m, dbg)
    IN  IF i < 0 THEN Done(ns, <<>>)
        ELSE IF node.kind # "Op" THEN propagate_backward_from(ns, m, dbg, i - 1)
        ELSE IF node.a >= Len(ns) \/ node.b >= Len(ns) THEN Panicked(ns, <<>>)
        ELSE IF na.kind = "Constant" /\ nb.kind = "Constant"
        THEN IF folded = PANIC THEN Panicked(ns, <<>>)
             ELSE propagate_backward_from([ns EXCEPT ![i + 1] = Constant(folded)], m, dbg, i - 1)
        ELSE IF node.a = node.b /\ same_operand(node.op) # PANIC
        THEN propagate_backward_from([ns EXCEPT ![i + 1] = Constant(same_operand(node.op))], m, dbg, i - 1)
        ELSE propagate_backward_from(ns, m, dbg, i - 1)

\* propagate_loop walking backward, whatever node it is asked to start at.
propagate_loop_backward(ns, m, dbg, i) == propagate_backward_from(ns, m, dbg, Len(ns) - 1)

\* Graph::propagate, the loop from the node with index i on.  The operand
\* nodes are read from the sequence as the earlier iterations left it.
RECURSIVE propagate_loop(_, _, _, _)
propagate_loop(ns, m, dbg, i) ==
    LET node == At(ns, i)
        na == At(ns, node.a)
        nb == At(ns, node.b)
        folded == eval(node.op, na.a, nb.a, m, dbg)
    IN  IF i >= Len(ns) THEN Done(ns, <<>>)
        ELSE IF node.kind # "Op" THEN propagate_loop(ns, m, dbg, i + 1)
        ELSE IF node.a >= Len(ns) \/ node.b >= Len(ns) THEN Panicked(ns, <<>>)
        ELSE IF na.kind = "Constant" /\ nb.kind = "Constant"
        THEN IF folded = PANIC THEN Panicked(ns, <<>>)
             ELSE propagate_loop([ns EXCEPT ![i + 1] = Constant(folded)], m, dbg, i + 1)
        ELSE IF node.a = node.b /\ same_operand(node.op) # PANIC
        THEN propagate_loop([ns EXCEPT ![i + 1] = Constant(same_operand(node.op))], m, dbg, i + 1)
        ELSE propagate_loop(ns, m, dbg, i + 1)

\* Graph::propagate (it takes no outputs: they are handed through unchanged)
propagate(ns, outs, m, dbg) ==
    IF ~is_valid(ns) THEN Panicked(ns, outs)
    ELSE LET r == propagate_loop(ns, m, dbg, 0)
         IN  [nodes |-> r.nodes, outputs |-> outs, panic |-> r.panic]

(***************************************************************************)
(* random_eval.  One run is a state [values, inputs, prfs]: the vector     *)
(* built so far and the two memo tables, inputs as pairs <<index, sample>> *)
(* and prfs as tuples <<operator, left value, right value, sample>>.  The  *)
(* generator can return every value below the modulus, so a run branches   *)
(* over all of them at each entry it inserts.                              *)
(***************************************************************************)
Field(m) == 0..(m - 1)

\* Every operator evaluated directly.
AlgebraicAll == Operation

\* The operators random_eval evaluates directly.
Algebraic == {"Add", "Sub", "Mul"}

\* The memo key without the operator.
prf_key_operands(node, vals) == <<"-", At(vals, node.a), At(vals, node.b)>>

\* The key of the prfs table: (*op, values[*a], values[*b]).
prf_key(node, vals) == <<node.op, At(vals, node.a), At(vals, node.b)>>

\* The runs that follow run st at one node.  A values of PanicV is a run that panicked.
random_eval_node(st, node, m, dbg) ==
    LET vals == st.values
        push(v) == [st EXCEPT !.values = Append(vals, v)]
        known_in == {e \in st.inputs : e[1] = node.a}
        key == prf_key(node, vals)
        known_prf == {e \in st.prfs : <<e[1], e[2], e[3]>> = key}
        direct == eval(node.op, At(vals, node.a), At(vals, node.b), m, dbg)
    IN  IF vals = PanicV THEN {st}
        ELSE IF node.kind = "Constant" THEN {push(node.a)}
        ELSE IF node.kind = "Input"
        THEN IF known_in # {} THEN {push(e[2]) : e \in known_in}
             ELSE {[values |-> Append(vals, v), inputs |-> st.inputs \cup {<<node.a, v>>}, prfs |-> st.prfs] : v \in Field(m)}
        ELSE IF node.a >= Len(vals) \/ node.b >= Len(vals) THEN {[st EXCEPT !.values = PanicV]}
        ELSE IF node.op \in Algebraic
        THEN IF direct = PANIC THEN {[st EXCEPT !.values = PanicV]} ELSE {push(direct)}
        ELSE IF known_prf # {} THEN {push(e[4]) : e \in known_prf}
        ELSE {[values |-> Append(vals, v), inputs |-> st.inputs, prfs |-> st.prfs \cup {<<key[1], key[2], key[3], v>>}] : v \in Field(m)}

RECURSIVE random_eval_loop(_, _, _, _, _)
random_eval_loop(sts, ns, m, dbg, i) ==
    IF i >= Len(ns) THEN sts
    ELSE random_eval_loop(UNION {random_eval_node(st, At(ns, i), m, dbg) : st \in sts}, ns, m, dbg, i + 1)

\* Graph::random_eval: the set of vectors a call can return.
random_eval(ns, m, dbg) ==
    {st.values : st \in random_eval_loop({[values |-> <<>>, inputs |-> {}, prfs |-> {}]}, ns, m, dbg, 0)}

\* renumber[i] taken as the last index whose value is that of i.
renumber_last(values, i) ==
    CHOOSE j \in Indices(values) :
        /\ At(values, j) = At(values, i)
        /\ \A k \in Indices(values) : At(values, k) = At(values, i) => j >= k

\* value_numbering, renumber[i]: the first index whose value is that of i.
renumber_first(values, i) ==
    CHOOSE j \in Indices(values) :
        /\ At(values, j) = At(values, i)
        /\ \A k \in Indices(values) : At(values, k) = At(values, i) => j <= k

\* The loop over outputs rewriting no entry.
renumber_outputs_kept(values, outs, k) == [outputs |-> outs, panic |-> FALSE]

\* value_numbering, the loop over outputs from position k (from 1) on; it
\* panics at the first entry that is no index of renumber.
RECURSIVE renumber_outputs(_, _, _)
renumber_outputs(values, outs, k) ==
    IF k > Len(outs) THEN [outputs |-> outs, panic |-> FALSE]
    ELSE IF outs[k] >= Len(values) THEN [outputs |-> outs, panic |-> TRUE]
    ELSE renumber_outputs(values, [outs EXCEPT ![k] = renumber_first(values, outs[k])], k + 1)

\* Graph::value_numbering once random_eval has returned values.
value_numbering_with(ns, outs, values) ==
    LET bad == \E i \in Indices(ns) : At(ns, i).kind = "Op" /\ (At(ns, i).a >= Len(values) \/ At(ns, i).b >= Len(values))
        renumbered ==
            [k \in DOMAIN ns |->
                IF ns[k].kind = "Op"
                THEN Op(ns[k].op, renumber_first(values, ns[k].a), renumber_first(values, ns[k].b))
                ELSE ns[k]]
        ro == renumber_outputs(values, outs, 1)
    IN  IF values = PanicV \/ bad THEN Panicked(ns, outs)
        ELSE [nodes |-> renumbered, outputs |-> ro.outputs, panic |-> ro.panic]

\* Graph::value_numbering: every result the call can have.
value_numbering(ns, outs, m, dbg) ==
    IF ~is_valid(ns) THEN {Panicked(ns, outs)}
    ELSE {value_numbering_with(ns, outs, values) : values \in random_eval(ns, m, dbg)}

\* constants_with rewriting the nodes whose two samples differ.
constants_with_differing(ns, outs, values_a, values_b) ==
    IF values_a = PanicV \/ values_b = PanicV THEN Panicked(ns, outs)
    ELSE Done([k \in DOMAIN ns |->
                 IF ns[k].kind = "Constant" THEN ns[k]
                 ELSE IF values_a[k] # values_b[k] THEN Constant(values_a[k])
                 ELSE ns[k]], outs)

\* Graph::constants once the two random_eval calls have returned.
constants_with(ns, outs, values_a, values_b) ==
    IF values_a = PanicV \/ values_b = PanicV THEN Panicked(ns, outs)
    ELSE Done([k \in DOMAIN ns |->
                 IF ns[k].kind = "Constant" THEN ns[k]
                 ELSE IF values_a[k] = values_b[k] THEN Constant(values_a[k])
                 ELSE ns[k]], outs)

\* Graph::constants: every result the call can have (no outputs are taken:
\* they are handed through unchanged).
constants(ns, outs, m, dbg) ==
    IF ~is_valid(ns) THEN {Panicked(ns, outs)}
    ELSE LET samples == random_eval(ns, m, dbg)
         IN  {constants_with(ns, outs, values_a, values_b) : values_a \in samples, values_b \in samples}

\* Graph::optimize: every result the call can have.  A pass that panics ends the call.
optimize(ns, outs, m, dbg) ==
    LET shaken == tree_shake(ns, outs)
        folded == propagate(shaken.nodes, shaken.outputs, m, dbg)
        after_constants(r) == IF r.panic THEN r ELSE tree_shake(r.nodes, r.outputs)
        after_numbering(r) ==
            IF r.panic THEN {r}
            ELSE {after_constants(c) : c \in constants(r.nodes, r.outputs, m, dbg)}
    IN  IF shaken.panic THEN {shaken}
        ELSE IF folded.panic THEN {folded}
        ELSE UNION {after_numbering(r) : r \in value_numbering(folded.nodes, folded.outputs, m, dbg)}

(***************************************************************************)
(* The graphs a loader can hand to Graph::new.  The loader reads a file,   *)
(* so it can supply any node sequence: the sequences with backward         *)
(* references only, and the shorter ones of those sequences with one       *)
(* operand of the last node replaced by a reference that is not backward   *)
(* (to the node itself, or past the end of the sequence).                  *)
(***************************************************************************)
GraphOps == {"Sub", "Mul", "Eq", "Shl", "MMul"}

Leaves == {Input(0), Input(1), Constant(1)}

Menu(i) == Leaves \cup {Op(o, l, r) : o \in GraphOps, l \in 0..(i - 1), r \in 0..(i - 1)}

RECURSIVE BackwardGraphs(_)
BackwardGraphs(n) ==
    IF n = 0 THEN {<<>>}
    ELSE {Append(g, nd) : g \in BackwardGraphs(n - 1), nd \in Menu(n - 1)}

Corrupted(g) ==
    LET k == Len(g)
    IN  IF g[k].kind # "Op" THEN {}
        ELSE {[g EXCEPT ![k] = Op(g[k].op, k - 1, g[k].b)],
              [g EXCEPT ![k] = Op(g[k].op, g[k].a, k - 1)],
              [g EXCEPT ![k] = Op(g[k].op, g[k].a, k)]}

LoaderGraphs ==
    LET backward == UNION {BackwardGraphs(n) : n \in 1..MaxNodes}
        shorter == UNION {BackwardGraphs(n) : n \in 1..(MaxNodes - 1)}
    IN  backward \cup UNION {Corrupted(g) : g \in shorter}

\* load_graph_binary: the node sequence and the input table read from the file.
load_graph_binary == {[nodes |-> g, inputs |-> <<2, 1>>] : g \in LoaderGraphs}

\* Graph::new: the fields are taken from the loader as they are.
GraphNew(loaded, m) == [nodes |-> loaded.nodes, inputs |-> loaded.inputs, modulus |-> m]

\* The output lists a caller passes for a graph of n nodes: the last node,
\* the last node and the first, or n, which is no index of the graph.
OutputLists(n) == {<<n - 1>>, <<n - 1, 0>>, <<n>>}

\* The scalar field of the graph (F::MODULUS).
Moduli == {3}

NoCall == [op |-> "-", a |-> 0, b |-> 0, res |-> -2]

\* The callers that share one Graph by reference, each with its position in
\* evaluate and the vector it has built so far.
Callers == {"c1", "c2"}

NoCallers == [c \in Callers |-> [pc |-> "idle", values |-> <<>>]]

\* No random_eval call is under way: no vector and no memo table exists.
NoRun == [pc |-> "idle", values |-> <<>>, inputs |-> {}, prfs |-> {}]

\* No conversion of util.rs has been called.
NoConv == [fn |-> "-", big_endian |-> FALSE, modulus |-> 0, arg |-> 0, limbs |-> <<>>, uint |-> -2, res |-> -2]

\* synthesize has not been called.
NoSynth == [pc |-> "idle", num_inputs |-> 0, num_aux |-> 0, num_pub_out |-> 0, witness |-> <<>>,
            vars |-> <<>>, output |-> <<>>]

Init ==
    \E loaded \in load_graph_binary, m \in Moduli :
        LET graph == GraphNew(loaded, m)
        IN  /\ nodes = graph.nodes
            /\ inputs = graph.inputs
            /\ modulus = graph.modulus
            /\ outputs \in OutputLists(Len(graph.nodes))
            /\ debug_assertions \in BOOLEAN
            /\ panicked = FALSE
            /\ last = "new"
            /\ ret = NoRet
            /\ call = NoCall
            /\ callers = NoCallers
            /\ run = NoRun
            /\ conv = NoConv
            /\ synth = NoSynth

\* A pass returned or panicked with result r.
Step(name, r) ==
    /\ nodes' = r.nodes
    /\ outputs' = r.outputs
    /\ panicked' = r.panic
    /\ last' = name
    /\ ret' = NoRet
    /\ UNCHANGED <<inputs, modulus, debug_assertions, call, callers, run, conv, synth>>

Evaluate ==
    /\ ~panicked
    /\ ret' = evaluate(nodes, inputs, modulus, debug_assertions)
    /\ panicked' = (ret' = PanicV)
    /\ last' = "evaluate"
    /\ UNCHANGED <<nodes, inputs, modulus, outputs, debug_assertions, call, callers, run, conv, synth>>

TreeShake ==
    /\ ~panicked
    /\ Step("tree_shake", tree_shake(nodes, outputs))

Propagate ==
    /\ ~panicked
    /\ Step("propagate", propagate(nodes, outputs, modulus, debug_assertions))

ValueNumbering ==
    /\ ~panicked
    /\ \E r \in value_numbering(nodes, outputs, modulus, debug_assertions) : Step("value_numbering", r)

Constants ==
    /\ ~panicked
    /\ \E r \in constants(nodes, outputs, modulus, debug_assertions) : Step("constants", r)

Optimize ==
    /\ ~panicked
    /\ \E r \in optimize(nodes, outputs, modulus, debug_assertions) : Step("optimize", r)

Next == Evaluate \/ TreeShake \/ Propagate \/ ValueNumbering \/ Constants \/ Optimize

Spec == Init /\ [][Next]_vars

\* The calls that draw no random samples.
NextDet == Evaluate \/ TreeShake \/ Propagate

SpecDet == Init /\ [][NextDet]_vars

(***************************************************************************)
(* The loaded graphs with an input table shorter than the Input indices    *)
(* they name: the loader reads the table from the file as it reads the     *)
(* nodes, and nothing compares the two.                                    *)
(***************************************************************************)
ShortTables == {<<>>, <<2>>}

InitShort ==
    \E loaded \in load_graph_binary, table \in ShortTables, m \in Moduli :
        LET graph == GraphNew([nodes |-> loaded.nodes, inputs |-> table], m)
        IN  /\ nodes = graph.nodes
            /\ inputs = graph.inputs
            /\ modulus = graph.modulus
            /\ outputs \in OutputLists(Len(graph.nodes))
            /\ debug_assertions \in BOOLEAN
            /\ panicked = FALSE
            /\ last = "new"
            /\ ret = NoRet
            /\ call = NoCall
            /\ callers = NoCallers
            /\ run = NoRun
            /\ conv = NoConv
            /\ synth = NoSynth

SpecShort == InitShort /\ [][NextDet]_vars

(***************************************************************************)
(* evaluate called by several callers on one shared Graph, none of them     *)
(* calling a pass.  A step is one entry into evaluate, one iteration of    *)
(* its loop, or its return; the steps of the callers interleave.  A panic  *)
(* ends the call of the caller it happens to.                              *)
(***************************************************************************)
InitCallers == Init /\ outputs = <<Len(nodes) - 1>>

\* assert!(self.is_valid()) and the allocation of the caller's vector.
CallEvaluate(c) ==
    /\ callers[c].pc \in {"idle", "returned"}
    /\ callers' = [callers EXCEPT ![c] =
                      IF is_valid(nodes) THEN [pc |-> "loop", values |-> <<>>]
                      ELSE [pc |-> "panicked", values |-> <<>>]]
    /\ UNCHANGED <<nodes, inputs, modulus, outputs, debug_assertions, panicked, last, ret, call, run, conv, synth>>

\* EvaluateNode with one vector shared by the callers inside the loop.
EvaluateNodeShared(c) ==
    LET values == callers[c].values
        value == node_value(At(nodes, Len(values)), inputs, values, modulus, debug_assertions)
    IN  /\ callers[c].pc = "loop" /\ Len(values) < Len(nodes)
        /\ callers' = [d \in Callers |->
                          IF value = PANIC
                          THEN IF d = c THEN [pc |-> "panicked", values |-> values] ELSE callers[d]
                          ELSE IF callers[d].pc = "loop"
                               THEN [pc |-> "loop", values |-> Append(callers[d].values, value)]
                               ELSE callers[d]]
        /\ UNCHANGED <<nodes, inputs, modulus, outputs, debug_assertions, panicked, last, ret, call, run, conv, synth>>

\* One iteration of the loop: the value of the next node is pushed on the
\* caller's own vector.
EvaluateNode(c) ==
    LET values == callers[c].values
        value == node_value(At(nodes, Len(values)), inputs, values, modulus, debug_assertions)
    IN  /\ callers[c].pc = "loop" /\ Len(values) < Len(nodes)
        /\ callers' = [callers EXCEPT ![c] =
                          IF value = PANIC THEN [pc |-> "panicked", values |-> values]
                          ELSE [pc |-> "loop", values |-> Append(values, value)]]
        /\ UNCHANGED <<nodes, inputs, modulus, outputs, debug_assertions, panicked, last, ret, call, run, conv, synth>>

\* The loop is over: the vector is returned.
EvaluateReturn(c) ==
    /\ callers[c].pc = "loop" /\ Len(callers[c].values) = Len(nodes)
    /\ callers' = [callers EXCEPT ![c].pc = "returned"]
    /\ UNCHANGED <<nodes, inputs, modulus, outputs, debug_assertions, panicked, last, ret, call, run, conv, synth>>

NextCallers == \E c \in Callers : CallEvaluate(c) \/ EvaluateNode(c) \/ EvaluateReturn(c)

SpecCallers == InitCallers /\ [][NextCallers]_vars

(***************************************************************************)
(* Operation::eval on its own: one call with any operator, any two values  *)
(* of the unsigned type and one of a few moduli.                           *)
(***************************************************************************)
EvalModuli == {3, 5, 11}

InitEval ==
    /\ nodes = <<>>
    /\ inputs = <<>>
    /\ outputs = <<>>
    /\ modulus \in EvalModuli
    /\ debug_assertions \in BOOLEAN
    /\ panicked = FALSE
    /\ last = "new"
    /\ ret = NoRet
    /\ call \in [op : Operation, a : Uint, b : Uint, res : {-2}]
    /\ callers = NoCallers
    /\ run = NoRun
    /\ conv = NoConv
    /\ synth = NoSynth

EvalCall ==
    /\ ~panicked
    /\ call.res = -2
    /\ call' = [call EXCEPT !.res = eval(call.op, call.a, call.b, modulus, debug_assertions)]
    /\ panicked' = (call'.res = PANIC)
    /\ last' = "eval"
    /\ UNCHANGED <<nodes, inputs, modulus, outputs, debug_assertions, ret, callers, run, conv, synth>>

NextEval == EvalCall

SpecEval == InitEval /\ [][NextEval]_vars

(***************************************************************************)
(* Constant propagation on its own, on the sequences with backward         *)
(* references whose last node applies any operator of the enum, over a few *)
(* fields.                                                                 *)
(***************************************************************************)
FoldLeaves == {Input(0), Constant(1)}

FoldOps == {"Sub", "Eq", "Shl"}

RECURSIVE FoldPrefixes(_)
FoldPrefixes(n) ==
    IF n = 0 THEN {<<>>}
    ELSE {Append(g, nd) : g \in FoldPrefixes(n - 1),
                          nd \in FoldLeaves \cup {Op(o, l, r) : o \in FoldOps, l \in 0..(n - 2), r \in 0..(n - 2)}}

FoldGraphs ==
    UNION {{Append(g, Op(o, l, r)) : g \in FoldPrefixes(n - 1), o \in Operation,
                                      l \in 0..(n - 2), r \in 0..(n - 2)} : n \in 2..MaxNodes}

InitFold ==
    \E g \in FoldGraphs, m \in EvalModuli :
        LET graph == GraphNew([nodes |-> g, inputs |-> <<2, 1>>], m)
        IN  /\ nodes = graph.nodes
            /\ inputs = graph.inputs
            /\ modulus = graph.modulus
            /\ outputs = <<Len(graph.nodes) - 1>>
            /\ debug_assertions \in BOOLEAN
            /\ panicked = FALSE
            /\ last = "new"
            /\ ret = NoRet
            /\ call = NoCall
            /\ callers = NoCallers
            /\ run = NoRun
            /\ conv = NoConv
            /\ synth = NoSynth

NextFold == Propagate

SpecFold == InitFold /\ [][NextFold]_vars

(***************************************************************************)
(* Example graphs over fields larger than the width of the unsigned type:   *)
(* the duplicate sum, the squared sum, and graphs with the unsupported     *)
(* MMul over a shift by a Constant equal to the width.                     *)
(***************************************************************************)
Example14 == <<Input(0), Input(1), Op("Add", 0, 1), Op("Add", 0, 1), Op("Mul", 2, 3)>>

Example15 == <<Input(0), Input(1), Op("Add", 0, 1), Op("Mul", 2, 2)>>

OpaqueGraphs ==
    {<<Constant(1), Constant(BITS), Op(s, 0, 1), Op("MMul", 2, r)>> : s \in {"Shl", "Shr"}, r \in 0..2}

Examples ==
    {[nodes |-> Example14, inputs |-> <<1, 2>>, outputs |-> <<4>>, modulus |-> 5],
     [nodes |-> Example15, inputs |-> <<2, 3>>, outputs |-> <<3>>, modulus |-> 7]}
    \cup {[nodes |-> g, inputs |-> <<>>, outputs |-> outs, modulus |-> 5] :
             g \in OpaqueGraphs, outs \in {<<3>>, <<3, 4>>}}

InitExamples ==
    \E ex \in Examples :
        LET graph == GraphNew(ex, ex.modulus)
        IN  /\ nodes = graph.nodes
            /\ inputs = graph.inputs
            /\ modulus = graph.modulus
            /\ outputs = ex.outputs
            /\ debug_assertions \in BOOLEAN
            /\ panicked = FALSE
            /\ last = "new"
            /\ ret = NoRet
            /\ call = NoCall
            /\ callers = NoCallers
            /\ run = NoRun
            /\ conv = NoConv
            /\ synth = NoSynth

\* The calls made on the examples: the randomized passes, the tree_shake
\* that follows them, and optimize.
NextExamples == TreeShake \/ ValueNumbering \/ Constants \/ Optimize

SpecExamples == InitExamples /\ [][NextExamples]_vars

(***************************************************************************)
(* random_eval one node at a time, called again and again on one graph.    *)
(* The graphs have two Inputs and two Ops over them, the second Op         *)
(* non-algebraic: equal and different operators over equal, exchanged and  *)
(* different operand pairs.  The vector and the two memo tables are locals *)
(* of the call; what the previous call left is kept in the state until the *)
(* next call makes its own.                                                *)
(***************************************************************************)
MemoPairs == {<<0, 1>>, <<1, 0>>, <<0, 0>>, <<1, 1>>}

MemoGraphs ==
    {<<Input(0), Input(i), Op(o1, p[1], p[2]), Op(o2, q[1], q[2])>> :
        i \in 0..1, o1 \in {"Eq", "Shl", "Mul"}, p \in MemoPairs,
        o2 \in {"Eq", "Shl"}, q \in MemoPairs \cup {<<2, 2>>, <<2, 0>>}}

InitMemo ==
    \E g \in MemoGraphs, m \in Moduli :
        LET graph == GraphNew([nodes |-> g, inputs |-> <<2, 1>>], m)
        IN  /\ nodes = graph.nodes
            /\ inputs = graph.inputs
            /\ modulus = graph.modulus
            /\ outputs = <<Len(graph.nodes) - 1>>
            /\ debug_assertions \in BOOLEAN
            /\ panicked = FALSE
            /\ last = "new"
            /\ ret = NoRet
            /\ call = NoCall
            /\ callers = NoCallers
            /\ run = NoRun
            /\ conv = NoConv
            /\ synth = NoSynth

\* The entry into random_eval: an empty vector and two empty tables.
RandomEvalCall ==
    /\ run.pc \in {"idle", "returned"}
    /\ run' = [pc |-> "loop", values |-> <<>>, inputs |-> {}, prfs |-> {}]
    /\ UNCHANGED <<nodes, inputs, modulus, outputs, debug_assertions, panicked, last, ret, call, callers, conv, synth>>

\* One iteration of the loop of random_eval.
RandomEvalNode ==
    /\ run.pc = "loop" /\ Len(run.values) < Len(nodes)
    /\ \E st \in random_eval_node([values |-> run.values, inputs |-> run.inputs, prfs |-> run.prfs],
                                  At(nodes, Len(run.values)), modulus, debug_assertions) :
          run' = [pc |-> IF st.values = PanicV THEN "panicked" ELSE "loop",
                  values |-> st.values, inputs |-> st.inputs, prfs |-> st.prfs]
    /\ UNCHANGED <<nodes, inputs, modulus, outputs, debug_assertions, panicked, last, ret, call, callers, conv, synth>>

\* The loop is over: the vector is returned.
RandomEvalReturn ==
    /\ run.pc = "loop" /\ Len(run.values) = Len(nodes)
    /\ run' = [run EXCEPT !.pc = "returned"]
    /\ UNCHANGED <<nodes, inputs, modulus, outputs, debug_assertions, panicked, last, ret, call, callers, conv, synth>>

NextMemo == RandomEvalCall \/ RandomEvalNode \/ RandomEvalReturn

SpecMemo == InitMemo /\ [][NextMemo]_vars

(***************************************************************************)
(* The conversions of src/src/util.rs.  Here the unsigned type is a word   *)
(* of WordLimbs limbs (the 4 u64 of U256), each limb two halves of         *)
(* HalfLimbBits bits (the u32 of the source).  transmute reinterprets the  *)
(* bytes of an array, so which half of a limb comes first depends on the   *)
(* byte order of the target, a choice of the build.                        *)
(***************************************************************************)
WordLimbs == 2

HalfLimbBits == 2

\* The number of [u32] limbs (8 in the source) and the width of the word (256).
HalfLimbs == 2 * WordLimbs

WordBits == HalfLimbs * HalfLimbBits

\* Uint::as_limbs: the little-endian limbs of the word.
as_limbs(uint) ==
    [k \in 1..WordLimbs |-> (uint \div Pow2(2 * HalfLimbBits * (k - 1))) % Pow2(2 * HalfLimbBits)]

\* Uint::from_limbs: the word with the little-endian digits ds of w bits.
RECURSIVE from_limbs(_, _)
from_limbs(ds, w) == IF ds = <<>> THEN 0 ELSE Head(ds) + Pow2(w) * from_limbs(Tail(ds), w)

\* transmute::<[u64; 4], [u32; 8]>: the halves of each limb in memory order.
transmute_to_halves(limbs, big_endian) ==
    [j \in 1..HalfLimbs |->
        LET limb == limbs[(j + 1) \div 2]
            low == limb % Pow2(HalfLimbBits)
            high == limb \div Pow2(HalfLimbBits)
        IN  IF (j % 2 = 1) = big_endian THEN high ELSE low]

\* transmute::<[u32; 8], [u64; 4]>
transmute_to_limbs(halves, big_endian) ==
    [k \in 1..WordLimbs |->
        LET first == halves[2 * k - 1]
            second == halves[2 * k]
        IN  IF big_endian THEN first * Pow2(HalfLimbBits) + second
            ELSE first + second * Pow2(HalfLimbBits)]

u256_as_limbs(uint, big_endian) == transmute_to_halves(as_limbs(uint), big_endian)

limbs_as_u256(limbs, big_endian) == from_limbs(transmute_to_limbs(limbs, big_endian), 2 * HalfLimbBits)

\* PrimeFieldBits::to_le_bits: the bits of the canonical value, lowest first.
to_le_bits(f) == [i \in 1..WordBits |-> (f \div Pow2(i - 1)) % 2]

\* The value limbs[limb_index] has after the bits from bit_index on are set.
RECURSIVE set_bits(_, _, _)
set_bits(bits, limb_index, bit_index) ==
    IF bit_index >= HalfLimbBits THEN 0
    ELSE bits[limb_index * HalfLimbBits + bit_index + 1] * Pow2(bit_index)
         + set_bits(bits, limb_index, bit_index + 1)

\* ff_as_limbs: limbs[i / 32] |= 1 << (i % 32) for every set bit i.
ff_as_limbs(f) == [j \in 1..HalfLimbs |-> set_bits(to_le_bits(f), j - 1, 0)]

\* limbs_as_ff taking the limbs from the first to the last.
RECURSIVE limbs_as_ff_forward(_, _)
limbs_as_ff_forward(limbs, p) ==
    IF limbs = <<>> THEN 0
    ELSE (limbs_as_ff_forward(SubSeq(limbs, 1, Len(limbs) - 1), p) * (Pow2(HalfLimbBits) % p)
          + (limbs[Len(limbs)] % p)) % p

\* limbs_as_ff: res = res * radix + F::from(val), from the last limb to the
\* first, in the field of modulus p.
RECURSIVE limbs_as_ff(_, _)
limbs_as_ff(limbs, p) ==
    IF limbs = <<>> THEN 0
    ELSE (limbs_as_ff(Tail(limbs), p) * (Pow2(HalfLimbBits) % p) + (Head(limbs) % p)) % p

u256_as_ff(uint, big_endian, p) == limbs_as_ff(u256_as_limbs(uint, big_endian), p)

ff_as_u256(f, big_endian) == limbs_as_u256(ff_as_limbs(f), big_endian)

\* The fields the conversions are used with: moduli that fit the word.
UtilModuli == {3, 13, 251}

InitUtil ==
    /\ nodes = <<>>
    /\ inputs = <<>>
    /\ outputs = <<>>
    /\ modulus = 0
    /\ debug_assertions = FALSE
    /\ panicked = FALSE
    /\ last = "new"
    /\ ret = NoRet
    /\ call = NoCall
    /\ callers = NoCallers
    /\ run = NoRun
    /\ synth = NoSynth
    /\ \E e \in BOOLEAN, p \in UtilModuli, x \in 0..(Pow2(WordBits) - 1) :
          conv = [NoConv EXCEPT !.big_endian = e, !.modulus = p, !.arg = x]

\* A conversion changes conv only.
ConvStep(c) ==
    /\ conv' = c
    /\ UNCHANGED <<nodes, inputs, modulus, outputs, debug_assertions, panicked, last, ret, call, callers, run, synth>>

U256AsLimbs ==
    /\ conv.fn = "-"
    /\ ConvStep([conv EXCEPT !.fn = "u256_as_limbs", !.limbs = u256_as_limbs(conv.arg, conv.big_endian)])

LimbsAsU256 ==
    /\ conv.fn = "u256_as_limbs"
    /\ ConvStep([conv EXCEPT !.fn = "limbs_as_u256", !.res = limbs_as_u256(conv.limbs, conv.big_endian)])

\* ff_as_u256 of the field element with the canonical value arg.
FfAsU256 ==
    /\ conv.fn = "-" /\ conv.arg < conv.modulus
    /\ ConvStep([conv EXCEPT !.fn = "ff_as_u256", !.limbs = ff_as_limbs(conv.arg),
                              !.uint = ff_as_u256(conv.arg, conv.big_endian)])

\* u256_as_ff of the word ff_as_u256 has returned, or of the word arg.
U256AsFf ==
    /\ conv.fn \in {"-", "ff_as_u256"}
    /\ LET uint == IF conv.fn = "-" THEN conv.arg ELSE conv.uint
       IN  ConvStep([conv EXCEPT !.fn = "u256_as_ff", !.limbs = u256_as_limbs(uint, conv.big_endian),
                                 !.res = u256_as_ff(uint, conv.big_endian, conv.modulus)])

NextUtil == U256AsLimbs \/ LimbsAsU256 \/ FfAsU256 \/ U256AsFf

SpecUtil == InitUtil /\ [][NextUtil]_vars

(***************************************************************************)
(* synthesize of src/src/lib.rs.  The R1CS comes from the reader, which    *)
(* sets num_inputs to 1 + public inputs + public outputs.  A witness is    *)
(* None (the empty sequence here) or one value per wire, wire 0 first.     *)
(* An allocated variable is its name in the constraint system and the      *)
(* value it was given.                                                     *)
(***************************************************************************)
\* Largest number of public outputs and of public inputs of a circuit.
MaxPublic == 3

\* Largest number of private wires of a circuit.
MaxAux == 2

\* The witness of a circuit with n wires.
WitnessOf(n) == [i \in 1..n |-> IF i = 1 THEN 1 ELSE (2 * i) % 5]

\* F::ONE without a witness, w[i] with one.
witness_value(witness, i) == IF witness = <<>> THEN 1 ELSE At(witness, i)

\* AllocatedNum::alloc(cs.namespace(|| name), || Ok(f))
AllocatedNum(kind, i, f) == [name |-> <<kind, i>>, value |-> f]

InitSynth ==
    /\ nodes = <<>>
    /\ inputs = <<>>
    /\ outputs = <<>>
    /\ modulus = 0
    /\ debug_assertions = FALSE
    /\ panicked = FALSE
    /\ last = "new"
    /\ ret = NoRet
    /\ call = NoCall
    /\ callers = NoCallers
    /\ run = NoRun
    /\ conv = NoConv
    /\ \E pub_out \in 0..MaxPublic, pub_in \in 0..MaxPublic, aux \in 0..MaxAux, some \in BOOLEAN :
          synth = [NoSynth EXCEPT !.num_inputs = 1 + pub_in + pub_out, !.num_aux = aux,
                                  !.num_pub_out = pub_out,
                                  !.witness = IF some THEN WitnessOf(1 + pub_in + pub_out + aux) ELSE <<>>]

\* A step of synthesize changes synth only.
SynthStep(t) ==
    /\ synth' = t
    /\ UNCHANGED <<nodes, inputs, modulus, outputs, debug_assertions, panicked, last, ret, call, callers, run, conv>>

\* The entry into synthesize: vars is empty.
SynthesizeCall ==
    /\ synth.pc = "idle"
    /\ SynthStep([synth EXCEPT !.pc = "public", !.vars = <<>>])

\* for i in 1..r1cs.num_inputs, one iteration: i is 1 + vars.len().
AllocPublic ==
    LET i == 1 + Len(synth.vars)
    IN  /\ synth.pc = "public" /\ i < synth.num_inputs
        /\ SynthStep([synth EXCEPT !.vars = Append(@, AllocatedNum("public", i, witness_value(synth.witness, i)))])

\* The first loop is over.
PublicDone ==
    /\ synth.pc = "public" /\ 1 + Len(synth.vars) >= synth.num_inputs
    /\ SynthStep([synth EXCEPT !.pc = "aux"])

\* for i in 0..r1cs.num_aux, one iteration.
AllocAux ==
    LET i == Len(synth.vars) - (synth.num_inputs - 1)
    IN  /\ synth.pc = "aux" /\ i < synth.num_aux
        /\ SynthStep([synth EXCEPT !.vars = Append(@, AllocatedNum("aux", i, witness_value(synth.witness, i + synth.num_inputs)))])

\* The match on r1cs.num_pub_out once both loops are over; the
\* constraints are enforced and the output is returned.
SynthesizeReturn ==
    LET k == synth.num_pub_out
        output == CASE k = 0 -> <<>>
                    [] k = 1 -> <<synth.vars[1]>>
                    [] OTHER -> SubSeq(synth.vars, 1, k - 1)
    IN  /\ synth.pc = "aux" /\ Len(synth.vars) - (synth.num_inputs - 1) >= synth.num_aux
        /\ SynthStep([synth EXCEPT !.pc = "returned", !.output = output])

NextSynth == SynthesizeCall \/ AllocPublic \/ PublicDone \/ AllocAux \/ SynthesizeReturn

SpecSynth == InitSynth /\ [][NextSynth]_vars

\* eval has been called and has returned a value.
Returned == last = "eval" /\ call.res # PANIC

InField == call.a < modulus /\ call.b < modulus

\* C3: for every supported operator and operands below the modulus (shift
\* amounts below the width), the value eval returns is below the modulus.
C3_EvalReduced ==
    (Returned /\ InField /\ (call.op \in {"Shl", "Shr"} => call.b < BITS)) => call.res < modulus

\* C4: for operands below the modulus, Add returns (a + b) mod modulus, Sub
\* returns (a - b) mod modulus and Mul returns (a * b) mod modulus.
C4_ModularArithmetic ==
    (last = "eval" /\ InField) =>
        /\ call.op = "Add" => call.res = (call.a + call.b) % modulus
        /\ call.op = "Sub" => call.res = (call.a - call.b) % modulus
        /\ call.op = "Mul" => call.res = (call.a * call.b) % modulus

\* A subtraction that borrows (a < b) has returned.
C4_Witness ==
    last = "eval" /\ call.op = "Sub" /\ InField /\ call.a < call.b /\ call.res = call.a + modulus - call.b

\* C5: the comparison operators and Lor return 0 or 1, and 1 exactly when
\* the relation holds of the two integers.
C5_Comparisons ==
    (last = "eval" /\ call.op \in Comparisons) =>
        /\ call.res \in {0, 1}
        /\ call.op = "Eq" => (call.res = 1 <=> call.a = call.b)
        /\ call.op = "Neq" => (call.res = 1 <=> call.a # call.b)
        /\ call.op = "Lt" => (call.res = 1 <=> call.a < call.b)
        /\ call.op = "Gt" => (call.res = 1 <=> call.a > call.b)
        /\ call.op = "Leq" => (call.res = 1 <=> call.a <= call.b)
        /\ call.op = "Geq" => (call.res = 1 <=> call.a >= call.b)
        /\ call.op = "Lor" => (call.res = 1 <=> (call.a # 0 \/ call.b # 0))

\* Leq has returned 1 for two equal operands.
C5_Witness ==
    last = "eval" /\ call.op = "Leq" /\ call.a = call.b /\ call.res = 1

\* C6: a shift by the width or more never returns a value.
C6_ShiftFatal ==
    (last = "eval" /\ call.op \in {"Shl", "Shr"} /\ call.b >= BITS) => call.res = PANIC

(***************************************************************************)
(* The claims on the graph.                                                *)
(***************************************************************************)
\* Some Op refers to its own position or to a later one.
BackRefBroken(ns) ==
    \E i \in Indices(ns) : At(ns, i).kind = "Op" /\ (At(ns, i).a >= i \/ At(ns, i).b >= i)

\* The graphs the loader hands over with a reference that is not backward.
InitInvalid == Init /\ BackRefBroken(nodes)

SpecInvalid == InitInvalid /\ [][Next]_vars

Supported == {"Add", "Sub", "Mul", "Shl", "Shr", "Band"} \cup Comparisons

\* The positions of the Op nodes with an operator eval does not implement.
UnsupportedAt(ns) == {i \in Indices(ns) : At(ns, i).kind = "Op" /\ At(ns, i).op \notin Supported}

Passes == {"tree_shake", "propagate", "value_numbering", "constants", "optimize"}

\* C2: a pass that returns leaves a graph with backward references only, and
\* tree_shake, value_numbering and optimize leave every entry of outputs an
\* index of the graph.
C2_PassesKeepValid ==
    (last \in Passes /\ ~panicked) =>
        /\ ~BackRefBroken(nodes)
        /\ last \in {"tree_shake", "value_numbering", "optimize"} =>
              \A k \in DOMAIN outputs : outputs[k] \in Indices(nodes)

\* value_numbering has returned a graph in which an Op has the same node on
\* both sides and outputs names it.
C2_Witness ==
    /\ last = "value_numbering" /\ ~panicked
    /\ \E i \in Indices(nodes) :
          /\ At(nodes, i).kind = "Op" /\ At(nodes, i).a = At(nodes, i).b
          /\ i \in Range(outputs)

\* C7: evaluate on a graph with an Op of an unsupported operator panics and
\* returns no values.
C7_UnsupportedFatal ==
    (last = "evaluate" /\ UnsupportedAt(nodes) # {}) => (panicked /\ ret = PanicV)

\* evaluate has panicked on a graph with backward references only whose
\* unsupported Op feeds no output.
C7_Witness ==
    /\ last = "evaluate" /\ panicked
    /\ ~BackRefBroken(nodes)
    /\ UnsupportedAt(nodes) # {}
    /\ Range(outputs) \subseteq Indices(nodes)
    /\ UnsupportedAt(nodes) \cap mark_used(nodes, Range(outputs), Len(nodes) - 1) = {}

\* C8: evaluate returns one value per node: the literal of a Constant, the
\* table entry of an Input, and for an Op the operator applied to the
\* returned values of its two operands, which stand before it.
C8_EvaluateValues ==
    (last = "evaluate" /\ ~panicked) =>
        /\ Len(ret) = Len(nodes)
        /\ \A i \in Indices(nodes) :
              LET node == At(nodes, i)
              IN  CASE node.kind = "Constant" -> At(ret, i) = node.a
                    [] node.kind = "Input" -> At(ret, i) = At(inputs, node.a)
                    [] OTHER ->
                          /\ node.a < i /\ node.b < i
                          /\ At(ret, i) = eval(node.op, At(ret, node.a), At(ret, node.b), modulus, debug_assertions)

\* evaluate has returned for a graph whose last node is an Op of an Op and
\* an Input, with different values on the two sides.
C8_Witness ==
    /\ last = "evaluate" /\ ~panicked /\ Len(nodes) = 3
    /\ At(nodes, 2).kind = "Op" /\ At(nodes, 2).a # At(nodes, 2).b
    /\ At(nodes, At(nodes, 2).a).kind = "Op"
    /\ At(ret, At(nodes, 2).a) # At(ret, At(nodes, 2).b)

\* C9: on a graph with a reference that is not backward, evaluate and every
\* pass panic, evaluate returns nothing, and nodes and outputs stay as they were.
C9_InvalidFatal ==
    [][(~panicked /\ BackRefBroken(nodes)) =>
          /\ panicked'
          /\ nodes' = nodes
          /\ outputs' = outputs
          /\ ret' \in {PanicV, NoRet}]_vars

\* constants has panicked on a graph whose last node names itself as its
\* right operand.
C9_Witness ==
    /\ last = "constants" /\ panicked
    /\ At(nodes, Len(nodes) - 1).kind = "Op"
    /\ At(nodes, Len(nodes) - 1).b = Len(nodes) - 1
    /\ At(nodes, Len(nodes) - 1).a < Len(nodes) - 1

\* C10: no Graph on which an operation can be called holds a node sequence
\* with a reference that is not backward.
C10_NewValidates == ~panicked => ~BackRefBroken(nodes)

(***************************************************************************)
(* Coincidences of samples.  Two nodes whose samples agree in every run of *)
(* random_eval agree by construction; a vector in which two nodes agree    *)
(* although some run tells them apart agrees there by chance.  Likewise a  *)
(* node whose sample is the same in every pair of runs is constant by      *)
(* construction.                                                           *)
(***************************************************************************)
NoChanceNumbering(samples, values) ==
    \A i, j \in Indices(values) :
        At(values, i) = At(values, j) => \A w \in samples : At(w, i) = At(w, j)

\* The positions whose sample is the same in every run.
FixedPositions(samples, n) ==
    {i \in 0..(n - 1) : \A w1, w2 \in samples : At(w1, i) = At(w2, i)}

NoChanceConstants(fixed, values_a, values_b) ==
    \A i \in Indices(values_a) : At(values_a, i) = At(values_b, i) => i \in fixed

\* The results of optimize in whose random evaluations nothing agrees by chance.
OptimizeNoChance(ns, outs, m, dbg) ==
    LET shaken == tree_shake(ns, outs)
        folded == propagate(shaken.nodes, shaken.outputs, m, dbg)
        numbered ==
            LET samples == random_eval(folded.nodes, m, dbg)
            IN  {value_numbering_with(folded.nodes, folded.outputs, v) :
                    v \in {w \in samples : NoChanceNumbering(samples, w)}}
        detected(r) ==
            LET samples == random_eval(r.nodes, m, dbg)
                fixed == FixedPositions(samples, Len(r.nodes))
            IN  {constants_with(r.nodes, r.outputs, p[1], p[2]) :
                    p \in {q \in samples \X samples : NoChanceConstants(fixed, q[1], q[2])}}
    IN  IF shaken.panic \/ folded.panic THEN {}
        ELSE {tree_shake(c.nodes, c.outputs) : c \in UNION {detected(r) : r \in {x \in numbered : ~x.panic}}}

\* Every input table with in-field entries.
InputTables(m) == [1..2 -> Field(m)]

\* The values at outs are the same in graph ns1 as at outs2 in graph ns2, for
\* every input table on which evaluate returns for ns1.
SameOutputs(ns1, outs1, ns2, outs2, m, dbg) ==
    \A X \in InputTables(m) :
        LET before == evaluate(ns1, X, m, dbg)
            after == evaluate(ns2, X, m, dbg)
        IN  before # PanicV =>
                /\ after # PanicV
                /\ \A k \in DOMAIN outs1 : At(before, outs1[k]) = At(after, outs2[k])

\* C1: optimize preserves the values at outputs, for every graph with
\* backward references only, every outputs and every input assignment.
\* Stated for the calls in whose random evaluations nothing agrees by chance:
\* a call that breaks it breaks the claim without any chance collision.
C1_OptimizePreserves ==
    [][(/\ ~panicked /\ last' = "optimize" /\ ~panicked'
        /\ Done(nodes', outputs') \in OptimizeNoChance(nodes, outputs, modulus, debug_assertions))
       => SameOutputs(nodes, outputs, nodes', outputs', modulus, debug_assertions)]_vars

(***************************************************************************)
(* The claims on the single passes.                                        *)
(***************************************************************************)
\* C11: tree_shake is idempotent: run again on the graph and the outputs a
\* tree_shake has left, it returns, removes no node and leaves the node
\* sequence and outputs as they are.
C11_TreeShakeIdempotent ==
    [][(last = "tree_shake" /\ ~panicked /\ last' = "tree_shake")
       => (~panicked' /\ nodes' = nodes /\ outputs' = outputs)]_vars

\* tree_shake has left a graph of an Op and the one leaf it reads, the Op
\* renumbered to the front and named by outputs.
C11_Witness ==
    /\ last = "tree_shake" /\ ~panicked
    /\ Len(nodes) = 2 /\ outputs = <<1>>
    /\ At(nodes, 1).kind = "Op" /\ At(nodes, 1).a = 0 /\ At(nodes, 1).b = 0
    /\ tree_shake(nodes, outputs) = Done(nodes, outputs)

\* The operators propagate folds when both operands are the same node.
OrderComparisons == {"Eq", "Neq", "Lt", "Gt", "Leq", "Geq"}

\* C12: propagate replaces every Op whose operand nodes are Constant(a) and
\* Constant(b) with Constant(op.eval(a, b, modulus)), and leaves unchanged
\* every node that is neither such an Op nor an order comparison of a node
\* with itself.  The operand nodes are the ones the pass finds when it
\* reaches the Op: an operand folded earlier in the pass is the Constant it
\* has become, and it keeps that form to the end of the pass.
C12_FoldExact ==
    [][(~panicked /\ last' = "propagate" /\ ~panicked') =>
          /\ Len(nodes') = Len(nodes)
          /\ \A i \in Indices(nodes) :
                LET node == At(nodes, i)
                    l == At(nodes', node.a)
                    r == At(nodes', node.b)
                IN  IF node.kind # "Op" THEN At(nodes', i) = node
                    ELSE IF l.kind = "Constant" /\ r.kind = "Constant"
                    THEN At(nodes', i) = Constant(eval(node.op, l.a, r.a, modulus, debug_assertions))
                    ELSE IF node.a = node.b /\ node.op \in OrderComparisons THEN TRUE
                    ELSE At(nodes', i) = node]_vars

\* propagate has folded a chain: Constant(1), its shift by itself, and the
\* shift of that result by itself.
C12_Witness ==
    /\ last = "propagate" /\ ~panicked
    /\ nodes = <<Constant(1), Constant(2), Constant(8)>>

\* C13: of an Op with the same node x on both sides, propagate makes
\* Constant(1) when the operator is Eq, Leq or Geq and Constant(0) when it is
\* Neq, Lt or Gt, whatever x is; under any other operator the Op is left as it
\* is unless x is a Constant when the pass reaches the Op.
C13_TautologyFolding ==
    [][(~panicked /\ last' = "propagate" /\ ~panicked') =>
          \A i \in Indices(nodes) :
              LET node == At(nodes, i)
              IN  (node.kind = "Op" /\ node.a = node.b) =>
                      /\ node.op \in {"Eq", "Leq", "Geq"} => At(nodes', i) = Constant(1)
                      /\ node.op \in {"Neq", "Lt", "Gt"} => At(nodes', i) = Constant(0)
                      /\ (node.op \notin OrderComparisons /\ At(nodes', node.a).kind # "Constant")
                            => At(nodes', i) = node]_vars

\* propagate has folded Leq of an Op with itself to Constant(1) and left the
\* Op, a subtraction of an Input from itself, as it was.
C13_Witness ==
    /\ last = "propagate" /\ ~panicked
    /\ nodes = <<Input(0), Op("Sub", 0, 0), Constant(1)>>

(***************************************************************************)
(* The claims on the example graphs.                                       *)
(***************************************************************************)
\* The results of value_numbering in whose random evaluation nothing agrees
\* by chance.
NumberingNoChance(ns, outs, m, dbg) ==
    LET samples == random_eval(ns, m, dbg)
    IN  {value_numbering_with(ns, outs, v) : v \in {w \in samples : NoChanceNumbering(samples, w)}}

\* Example14 with the reference to node 3 rewritten to node 2.
Numbered14 == <<Input(0), Input(1), Op("Add", 0, 1), Op("Add", 0, 1), Op("Mul", 2, 2)>>

\* Numbered14 without node 3.
Shaken14 == <<Input(0), Input(1), Op("Add", 0, 1), Op("Mul", 2, 2)>>

\* tree_shake on Numbered14 removes node 3, leaves four nodes and outputs
\* [3], and the output has the value it has in Example14 for every input table.
Shake14 ==
    (nodes = Numbered14 /\ outputs = <<4>> /\ ~panicked /\ last' = "tree_shake") =>
        /\ ~panicked'
        /\ nodes' = Shaken14
        /\ outputs' = <<3>>
        /\ SameOutputs(Example14, <<4>>, nodes', outputs', modulus, debug_assertions)

\* C14 as stated: on Example14 with outputs [4], value_numbering rewrites the
\* reference to node 3 into a reference to node 2 and nothing else, on
\* every run, and the following tree_shake removes node 3 and keeps the
\* output value.
C14_Coalescing ==
    [][/\ (nodes = Example14 /\ outputs = <<4>> /\ ~panicked /\ last' = "value_numbering")
            => (~panicked' /\ nodes' = Numbered14 /\ outputs' = <<4>>)
       /\ Shake14]_vars

\* C14 amended: the same, for the runs of value_numbering in which two
\* nodes get the same sample only if they do in every run.
C14_CoalescingNoChance ==
    [][/\ (/\ nodes = Example14 /\ outputs = <<4>> /\ ~panicked /\ last' = "value_numbering"
           /\ Done(nodes', outputs') \in NumberingNoChance(nodes, outputs, modulus, debug_assertions))
            => (nodes' = Numbered14 /\ outputs' = <<4>>)
       /\ Shake14]_vars

\* value_numbering has turned Example14 into Numbered14.
C14_Witness ==
    last = "value_numbering" /\ ~panicked /\ nodes = Numbered14 /\ outputs = <<4>>

\* Before and after an optimize of Example15, evaluate with inputs [2, 3]
\* gives 25 mod p at the output, and the graph keeps its four nodes.
EndToEnd15 ==
    /\ At(evaluate(nodes, inputs, modulus, debug_assertions), 3) = 25 % modulus
    /\ ~panicked'
    /\ Len(nodes') = 4
    /\ At(evaluate(nodes', inputs, modulus, debug_assertions), outputs'[1]) = 25 % modulus

\* C15 as stated: EndToEnd15 on every run of optimize.
C15_EndToEnd ==
    [][(nodes = Example15 /\ outputs = <<3>> /\ inputs = <<2, 3>> /\ ~panicked /\ last' = "optimize")
       => EndToEnd15]_vars

\* C15 amended: EndToEnd15 on the runs of optimize in whose random
\* evaluations nothing agrees by chance.
C15_EndToEndNoChance ==
    [][(/\ nodes = Example15 /\ outputs = <<3>> /\ inputs = <<2, 3>> /\ ~panicked /\ last' = "optimize"
        /\ Done(nodes', outputs') \in OptimizeNoChance(nodes, outputs, modulus, debug_assertions))
       => EndToEnd15]_vars

\* optimize has returned Example15 with its four nodes.
C15_Witness ==
    /\ last = "optimize" /\ ~panicked
    /\ nodes = Example15 /\ outputs = <<3>> /\ inputs = <<2, 3>>

\* C19: on a graph with backward references only, value_numbering with
\* every entry of outputs an index of the graph, and constants, return
\* without a panic, whatever operators and constants the graph holds.
C19_RandomizedNeverFail ==
    [][(/\ ~panicked /\ ~BackRefBroken(nodes)
        /\ \/ last' = "constants"
           \/ last' = "value_numbering" /\ Range(outputs) \subseteq Indices(nodes))
       => ~panicked']_vars

\* constants has returned on a graph that still holds MMul over a shift by
\* a Constant equal to the width.
C19_Witness ==
    /\ last = "constants" /\ ~panicked /\ Len(nodes) = 4
    /\ At(nodes, 3).kind = "Op" /\ At(nodes, 3).op = "MMul"
    /\ At(nodes, 2).kind = "Op" /\ At(nodes, 2).op = "Shl" /\ At(nodes, 2).b = 1
    /\ At(nodes, 1) = Constant(BITS)

(***************************************************************************)
(* The claims on the randomized passes and on repeated calls.              *)
(***************************************************************************)
\* C16: the constants pass rewrites every Op(Sub, x, x) to Constant(0), on
\* every run, whatever samples the two random evaluations draw.
C16_SubSelfZero ==
    [][(~panicked /\ last' = "constants" /\ ~panicked') =>
          \A i \in Indices(nodes) :
              LET node == At(nodes, i)
              IN  (node.kind = "Op" /\ node.op = "Sub" /\ node.a = node.b)
                      => At(nodes', i) = Constant(0)]_vars

\* constants has left Constant(0) behind a shift of an Input that it did
\* not replace.
C16_Witness ==
    /\ last = "constants" /\ ~panicked
    /\ nodes = <<Input(0), Op("Shl", 0, 0), Constant(0)>>

\* C17: evaluate leaves nodes, the input table and the modulus as they are,
\* and every call of every caller, whatever steps of other calls come in
\* between, returns the vector a call running alone returns, and panics
\* only when a call running alone panics.
C17_EvaluateReadOnly ==
    /\ [][nodes' = nodes /\ inputs' = inputs /\ modulus' = modulus]_vars
    /\ [](\A c \in Callers :
            LET alone == evaluate(nodes, inputs, modulus, debug_assertions)
            IN  /\ callers[c].pc = "returned" => callers[c].values = alone
                /\ callers[c].pc = "panicked" => alone = PanicV)

\* One caller has returned the three values of a graph whose last node is
\* an Op while the other is in the middle of its loop.
C17_Witness ==
    /\ callers["c1"].pc = "returned" /\ Len(callers["c1"].values) = 3
    /\ At(nodes, 2).kind = "Op"
    /\ callers["c2"].pc = "loop" /\ Len(callers["c2"].values) = 1

(***************************************************************************)
(* optimize called again and again on runs in whose random evaluations     *)
(* nothing agrees by chance.                                               *)
(***************************************************************************)
OptimizeNoCollision ==
    /\ ~panicked
    /\ LET sure == OptimizeNoChance(nodes, outputs, modulus, debug_assertions)
       IN  \E r \in optimize(nodes, outputs, modulus, debug_assertions) :
               /\ r.panic \/ r \in sure
               /\ Step("optimize", r)

NextRepeat == OptimizeNoCollision

SpecRepeat == Init /\ [][NextRepeat]_vars

C20_ConstantsInField ==
    ~panicked => \A i \in Indices(nodes) : At(nodes, i).kind = "Constant" => At(nodes, i).a < modulus

(***************************************************************************)
(* The claims on what the deterministic passes keep.                       *)
(***************************************************************************)
\* The least set of indices that holds live and, with every Op it holds,
\* both operands of that Op.
RECURSIVE Reachable(_, _)
Reachable(ns, live) ==
    LET more == live \cup UNION {{At(ns, i).a, At(ns, i).b} : i \in {j \in live : At(ns, j).kind = "Op"}}
    IN  IF more = live THEN live ELSE Reachable(ns, more)

\* The position a node with index i takes once the nodes outside live are gone.
Position(live, i) == Cardinality({j \in live : j < i})

\* C22: on a graph with backward references only and outputs that are
\* indices of it, tree_shake returns and keeps exactly the nodes reachable
\* from outputs through operand references, in their order, with every
\* operand index and every entry of outputs rewritten to the new position of
\* the node it named.
C22_TreeShakeExact ==
    [][(/\ ~panicked /\ ~BackRefBroken(nodes) /\ Range(outputs) \subseteq Indices(nodes)
        /\ last' = "tree_shake") =>
          LET live == Reachable(nodes, Range(outputs))
          IN  /\ ~panicked'
              /\ Len(nodes') = Cardinality(live)
              /\ \A i \in live :
                    LET node == At(nodes, i)
                        kept == At(nodes', Position(live, i))
                    IN  IF node.kind = "Op"
                        THEN kept = Op(node.op, Position(live, node.a), Position(live, node.b))
                        ELSE kept = node
              /\ outputs' = [k \in DOMAIN outputs |-> Position(live, outputs[k])]]_vars

\* tree_shake has kept a chain of three nodes of which outputs names the
\* last only: the first is reached through the second.
C22_Witness ==
    /\ last = "tree_shake" /\ ~panicked /\ outputs = <<2>> /\ Len(nodes) = 3
    /\ At(nodes, 2).kind = "Op" /\ At(nodes, 2).a = 1 /\ At(nodes, 2).b = 1
    /\ At(nodes, 1).kind = "Op" /\ At(nodes, 1).a = 0 /\ At(nodes, 1).b = 0

\* C23: tree_shake and propagate preserve the values at outputs.  For every
\* graph with backward references only, outputs that are indices of it and
\* every input table, the vector evaluate returns after a tree_shake has at
\* the rewritten outputs the values it had at outputs before; after a
\* propagate the graph has as many nodes as before and evaluate returns the
\* same vector as before (or panics as before).
C23_DeterministicPreserve ==
    [][(~panicked /\ ~BackRefBroken(nodes) /\ Range(outputs) \subseteq Indices(nodes)) =>
          /\ (last' = "tree_shake") =>
                /\ ~panicked'
                /\ \A X \in InputTables(modulus) :
                      LET before == evaluate(nodes, X, modulus, debug_assertions)
                          after == evaluate(nodes', X, modulus, debug_assertions)
                      IN  before # PanicV =>
                              /\ after # PanicV
                              /\ Len(outputs') = Len(outputs)
                              /\ \A k \in DOMAIN outputs :
                                    /\ outputs'[k] \in Indices(after)
                                    /\ At(after, outputs'[k]) = At(before, outputs[k])
          /\ (last' = "propagate" /\ ~panicked') =>
                /\ Len(nodes') = Len(nodes)
                /\ outputs' = outputs
                /\ \A X \in InputTables(modulus) :
                      evaluate(nodes', X, modulus, debug_assertions)
                          = evaluate(nodes, X, modulus, debug_assertions)]_vars

\* propagate has folded the subtraction of Constant(1) from itself, which
\* outputs names together with an Input.
C23_Witness ==
    /\ last = "propagate" /\ ~panicked
    /\ nodes = <<Input(0), Constant(1), Constant(0)>> /\ outputs = <<2, 0>>

(***************************************************************************)
(* The claims on the randomized passes, one call at a time.                *)
(***************************************************************************)
\* Index r is the lowest one whose sample in values is the sample of index i.
LowestWithSample(values, i, r) ==
    /\ r \in Indices(values)
    /\ At(values, r) = At(values, i)
    /\ \A j \in 0..(r - 1) : At(values, j) # At(values, r)

\* C24: a value_numbering that returns has drawn a sample vector such that
\* every operand index of an Op and every entry of outputs is now the lowest
\* index whose sample is that of the node it named before; the node count,
\* the kind of every node, the operator of every Op and every Input and
\* Constant are as before.
C24_LowestIndex ==
    [][(~panicked /\ last' = "value_numbering" /\ ~panicked') =>
          \E values \in random_eval(nodes, modulus, debug_assertions) :
              /\ Len(values) = Len(nodes)
              /\ Len(nodes') = Len(nodes)
              /\ \A i \in Indices(nodes) :
                    LET node == At(nodes, i)
                        new == At(nodes', i)
                    IN  IF node.kind # "Op" THEN new = node
                        ELSE /\ new.kind = "Op" /\ new.op = node.op
                             /\ LowestWithSample(values, node.a, new.a)
                             /\ LowestWithSample(values, node.b, new.b)
              /\ Len(outputs') = Len(outputs)
              /\ \A k \in DOMAIN outputs : LowestWithSample(values, outputs[k], outputs'[k])]_vars

\* value_numbering has returned on a graph of three nodes whose last two
\* are the same product, with outputs moved from the last node to the one
\* before it.
C24_Witness ==
    /\ last = "value_numbering" /\ ~panicked
    /\ nodes = <<Input(0), Op("Mul", 0, 0), Op("Mul", 0, 0)>> /\ outputs = <<1>>

\* The nodes a random evaluation has sampled so far that are Ops of a
\* non-algebraic operator, and those that are Inputs.
OpaqueDone == {i \in Indices(run.values) : At(nodes, i).kind = "Op" /\ At(nodes, i).op \notin {"Add", "Sub", "Mul"}}

InputsDone == {i \in Indices(run.values) : At(nodes, i).kind = "Input"}

\* (operator, left sample, right sample) of the Op with index i.
MemoKey(i) == <<At(nodes, i).op, At(run.values, At(nodes, i).a), At(run.values, At(nodes, i).b)>>

\* C25: within one random evaluation two non-algebraic Ops with the same
\* (operator, left sample, right sample) have the same sample, and two Inputs
\* with the same index have the same sample; the prfs table holds one entry
\* for each such triple met in this evaluation and nothing else, and the
\* sample of an Op is the entry of its own triple; the inputs table holds
\* one entry for each Input index met in this evaluation and nothing else
\* (so no entry of an earlier evaluation is there).
C25_MemoKeyed ==
    (run.pc \in {"loop", "returned"}) =>
        /\ \A i, j \in OpaqueDone : MemoKey(i) = MemoKey(j) => At(run.values, i) = At(run.values, j)
        /\ run.prfs = {<<MemoKey(i)[1], MemoKey(i)[2], MemoKey(i)[3], At(run.values, i)>> : i \in OpaqueDone}
        /\ Cardinality(run.prfs) = Cardinality({MemoKey(i) : i \in OpaqueDone})
        /\ \A i, j \in InputsDone : At(nodes, i).a = At(nodes, j).a => At(run.values, i) = At(run.values, j)
        /\ run.inputs = {<<At(nodes, i).a, At(run.values, i)>> : i \in InputsDone}
        /\ Cardinality(run.inputs) = Cardinality({At(nodes, i).a : i \in InputsDone})

\* A random evaluation has returned different samples for Eq and Shl of
\* the same two Inputs, whose own samples are equal.
C25_Witness ==
    /\ run.pc = "returned"
    /\ nodes = <<Input(0), Input(1), Op("Eq", 0, 1), Op("Shl", 0, 1)>>
    /\ At(run.values, 0) = At(run.values, 1)
    /\ At(run.values, 2) # At(run.values, 3)

\* C26: a constants pass that returns has made two random evaluations such
\* that a node is now Constant(v) exactly when it was no Constant and had
\* the sample v in both, and every other node is as it was; the node count,
\* every operand index and outputs are as they were.
C26_ConstantsExact ==
    [][(~panicked /\ last' = "constants" /\ ~panicked') =>
          LET samples == random_eval(nodes, modulus, debug_assertions)
              rewritten == {i \in Indices(nodes) : At(nodes', i) # At(nodes, i)}
          IN  /\ Len(nodes') = Len(nodes)
              /\ outputs' = outputs
              /\ \E values_a \in samples :
                    /\ Len(values_a) = Len(nodes)
                    /\ \A i \in rewritten :
                          At(nodes, i).kind # "Constant" /\ At(nodes', i) = Constant(At(values_a, i))
                    /\ \E values_b \in samples :
                          /\ Len(values_b) = Len(nodes)
                          /\ \A i \in Indices(nodes) :
                                (At(nodes, i).kind # "Constant" /\ At(values_a, i) = At(values_b, i))
                                    <=> i \in rewritten]_vars

\* constants has returned a graph in which the second node has become
\* Constant(2) and the product of the Input with it is still an Op.
C26_Witness ==
    /\ last = "constants" /\ ~panicked
    /\ nodes = <<Input(0), Constant(2), Op("Mul", 0, 1)>>

\* A constants step in whose two random evaluations nothing agrees by
\* chance: the rewritten nodes are the nodes, not yet Constant, whose sample
\* is the same in every run.
ConstantsSure ==
    LET samples == random_eval(nodes, modulus, debug_assertions)
        fixed == FixedPositions(samples, Len(nodes))
    IN  /\ Len(nodes') = Len(nodes)
        /\ {i \in Indices(nodes) : At(nodes', i) # At(nodes, i)}
               = {i \in fixed : At(nodes, i).kind # "Constant"}

\* C27: on a graph with backward references only and outputs that are
\* indices of it, a value_numbering or a constants in whose random
\* evaluations two samples agree only if they agree in every run, followed
\* by tree_shake, leaves at the rewritten outputs the values evaluate gave at
\* the original outputs, for every input table.
C27_WrongOnlyByChance ==
    [][(/\ ~panicked /\ ~BackRefBroken(nodes) /\ Range(outputs) \subseteq Indices(nodes)
        /\ ~panicked'
        /\ \/ /\ last' = "value_numbering"
              /\ Done(nodes', outputs') \in NumberingNoChance(nodes, outputs, modulus, debug_assertions)
           \/ /\ last' = "constants"
              /\ ConstantsSure)
       => LET shaken == tree_shake(nodes', outputs')
          IN  /\ ~shaken.panic
              /\ SameOutputs(nodes, outputs, shaken.nodes, shaken.outputs, modulus, debug_assertions)]_vars

(***************************************************************************)
(* The claims on the input table.                                          *)
(***************************************************************************)
\* The positions of the Inputs whose index the input table does not cover.
UncoveredAt(ns, ins) == {i \in Indices(ns) : At(ns, i).kind = "Input" /\ At(ns, i).a >= Len(ins)}

\* C28: evaluate on a graph that holds an Input(i) with i at or above the
\* length of the input table panics and returns no vector, whether or not
\* the graph has backward references only and whether or not the Input
\* feeds an output.
C28_UncoveredInputFatal ==
    (last = "evaluate" /\ UncoveredAt(nodes, inputs) # {}) => (panicked /\ ret = PanicV)

\* evaluate has panicked on a graph with backward references only and
\* supported operators only, whose one uncovered Input feeds no output.
C28_Witness ==
    /\ last = "evaluate" /\ panicked /\ ret = PanicV
    /\ inputs = <<2>> /\ outputs = <<2>>
    /\ nodes = <<Input(0), Input(1), Op("Mul", 0, 0)>>
    /\ ~BackRefBroken(nodes)

(***************************************************************************)
(* The claims on repeated constant propagation.                            *)
(***************************************************************************)
\* An Op of ns that propagate folds: both operand nodes are Constants, or
\* it compares a node with itself.
Foldable(ns) ==
    {i \in Indices(ns) :
        /\ At(ns, i).kind = "Op"
        /\ \/ At(ns, At(ns, i).a).kind = "Constant" /\ At(ns, At(ns, i).b).kind = "Constant"
           \/ At(ns, i).a = At(ns, i).b /\ At(ns, i).op \in OrderComparisons}

\* C29: the graph a propagate has returned holds no Op with two Constant
\* operand nodes and no Eq, Neq, Lt, Gt, Leq or Geq of a node with itself,
\* and a propagate called on it returns and changes nothing.
C29_PropagateFixedPoint ==
    /\ []((last = "propagate" /\ ~panicked) => Foldable(nodes) = {})
    /\ [][(last = "propagate" /\ ~panicked /\ last' = "propagate")
           => (~panicked' /\ nodes' = nodes /\ outputs' = outputs)]_vars

\* propagate has folded a chain in one pass: the subtraction of Constant(1)
\* from itself, and the subtraction of Constant(1) from that result.
C29_Witness ==
    /\ last = "propagate" /\ ~panicked /\ modulus = 5
    /\ nodes = <<Constant(1), Constant(0), Constant(4)>>

(***************************************************************************)
(* The claims on the conversions.                                          *)
(***************************************************************************)
\* C21: limbs_as_u256(u256_as_limbs(x)) = x for every word x, and
\* u256_as_ff(ff_as_u256(f)) = f for every field element f, on either byte
\* order; u256_as_limbs returns as many limbs as the word has halves, each
\* within the width of a half, and on a little-endian target they are the
\* little-endian digits of x.
C21_LimbRoundTrip ==
    /\ conv.fn = "limbs_as_u256" => conv.res = conv.arg
    /\ (conv.fn = "u256_as_ff" /\ conv.uint # -2) => conv.res = conv.arg
    /\ conv.fn = "u256_as_limbs" =>
          /\ Len(conv.limbs) = HalfLimbs
          /\ \A j \in 1..HalfLimbs : conv.limbs[j] \in 0..(Pow2(HalfLimbBits) - 1)
          /\ ~conv.big_endian =>
                \A j \in 1..HalfLimbs :
                    conv.limbs[j] = (conv.arg \div Pow2(HalfLimbBits * (j - 1))) % Pow2(HalfLimbBits)

\* A field element whose value fills more than one limb has come back
\* from ff_as_u256 and u256_as_ff, through a word with several limbs set.
C21_Witness ==
    /\ conv.fn = "u256_as_ff" /\ conv.uint # -2
    /\ conv.modulus = 251 /\ conv.arg = 109 /\ conv.res = 109
    /\ \A j \in 1..HalfLimbs : conv.limbs[j] # 0

(***************************************************************************)
(* The claims on synthesize.                                               *)
(***************************************************************************)
\* C30: synthesize has allocated num_inputs - 1 public variables and then
\* num_aux private ones, and it returns the first num_pub_out of them,
\* whatever num_pub_out is.
C30_SynthesizeOutputs ==
    synth.pc = "returned" =>
        /\ Len(synth.vars) = synth.num_inputs - 1 + synth.num_aux
        /\ \A j \in 1..Len(synth.vars) :
              synth.vars[j].name = IF j < synth.num_inputs THEN <<"public", j>>
                                   ELSE <<"aux", j - synth.num_inputs>>
        /\ synth.output = SubSeq(synth.vars, 1, synth.num_pub_out)

====
